---- MODULE Spec2Model ----
(***************************************************************************)
(* Model of main.py: the /query handler create_query, the cluster-state    *)
(* aggregation aggregate_info with its sub-fetches, and the prompt          *)
(* construction generate_prompt.                                            *)
(*                                                                          *)
(* Python values are tagged records (PyNone, PyStr, PyInt, PyDict); a dict  *)
(* is an insertion-ordered sequence of <<key, value>> pairs.  A prompt is   *)
(* the sequence of the template's lines.  Where main.py defines a function  *)
(* more than once, the last definition is the one Python binds, and the one *)
(* modelled.                                                                *)
(***************************************************************************)
EXTENDS Integers, Sequences, FiniteSets, TLC

VARIABLES cluster, pc, request_data, query, locals, combined_info, prompt, sent,
          answer, response, calls, failed

vars == <<cluster, pc, request_data, query, locals, combined_info, prompt, sent,
          answer, response, calls, failed>>

(* ------------------------------ bounds --------------------------------- *)

MaxNodes == 2

MaxNamespaces == 2

MaxServices == 2

MaxPods == 3

NodeNames == {"n1", "n2"}

NamespaceNames == {"ns1", "ns2"}

ServiceNames == {"svc"}

PodNames == {"db", "web"}

HpaLists == {<<>>, <<"hpa1">>}

QueryTexts == {"why is my deployment failing"}

RawAnswers == {" Yes ", "No"}

(* --------------------------- Python values ----------------------------- *)

PyNone == [t |-> "none", s |-> "", n |-> 0, items |-> <<>>]

PyStr(x) == [t |-> "str", s |-> x, n |-> 0, items |-> <<>>]

PyInt(x) == [t |-> "int", s |-> "", n |-> x, items |-> <<>>]

PyDict(kv) == [t |-> "dict", s |-> "", n |-> 0, items |-> kv]

\* bool(v): None, "", 0 and {} are falsy
truthy(v) ==
    CASE v.t = "none" -> FALSE
      [] v.t = "str"  -> v.s # ""
      [] v.t = "int"  -> v.n # 0
      [] v.t = "dict" -> v.items # <<>>

\* a or b
py_or(a, b) == IF truthy(a) THEN a ELSE b

dict_keys(d) == [i \in 1..Len(d.items) |-> d.items[i][1]]

dict_has(d, k) == \E i \in 1..Len(d.items) : d.items[i][1] = k

\* d.get(k, default) when the key is present: the value stored under k
dict_at(d, k) == d.items[CHOOSE i \in 1..Len(d.items) : d.items[i][1] = k][2]

dict_get(d, k, default) == IF dict_has(d, k) THEN dict_at(d, k) ELSE default

\* d[k] = v: an existing key keeps its position, a new key goes last
dict_set(d, k, v) ==
    IF dict_has(d, k)
    THEN PyDict([i \in 1..Len(d.items) |->
                    IF d.items[i][1] = k THEN <<k, v>> ELSE d.items[i]])
    ELSE PyDict(Append(d.items, <<k, v>>))

\* if ns not in d: d[ns] = []; d[ns].append(rec)
dict_append(d, ns, rec) ==
    IF dict_has(d, ns)
    THEN dict_set(d, ns, Append(dict_at(d, ns), rec))
    ELSE dict_set(d, ns, <<rec>>)

Digits == <<"0", "1", "2", "3", "4", "5", "6", "7", "8", "9">>

\* str(n) of a small non-negative int
int_str(n) == IF n < 10 THEN Digits[n + 1] ELSE Digits[(n \div 10) + 1] \o Digits[(n % 10) + 1]

\* f"{v}" of a scalar value
fmt(v) ==
    CASE v.t = "none" -> "None"
      [] v.t = "str"  -> v.s
      [] v.t = "int"  -> int_str(v.n)
      [] v.t = "dict" -> "{...}"

\* str.strip() on the generator's raw outputs
strip(raw) ==
    CASE raw = " Yes " -> "Yes"
      [] OTHER -> raw

(* ------------------------------ cluster -------------------------------- *)

DistinctSeqs(S, n) ==
    {q \in UNION {[1..k -> S] : k \in 0..n} :
        \A i, j \in 1..Len(q) : i # j => q[i] # q[j]}

Range(q) == {q[i] : i \in 1..Len(q)}

Objects(nss, names) == {[namespace |-> ns, name |-> nm] : ns \in nss, nm \in names}

KubernetesVersion == "v1.29.0"

KubeConfigPath == "~/.kube/config"

\* what the orchestration API holds: every pod and service lives in a listed namespace
Clusters ==
    {[nodes |-> nd, namespaces |-> nss, services |-> sv, pods |-> pd, hpas |-> hp] :
        nd \in DistinctSeqs(NodeNames, MaxNodes),
        nss \in DistinctSeqs(NamespaceNames, MaxNamespaces),
        sv \in DistinctSeqs(Objects(NamespaceNames, ServiceNames), MaxServices),
        pd \in DistinctSeqs(Objects(NamespaceNames, PodNames), MaxPods),
        hp \in HpaLists}

ConsistentClusters ==
    {c \in Clusters :
        /\ \A i \in 1..Len(c.services) : c.services[i].namespace \in Range(c.namespaces)
        /\ \A i \in 1..Len(c.pods) : c.pods[i].namespace \in Range(c.namespaces)}

\* pod.spec.containers of the pod object the API holds for (namespace, name)
PodContainers(ns, nm) ==
    <<[name |-> "main", image |-> ns \o "/" \o nm, env |-> <<<<"APP", nm>>>>]>>

Call(op, ns, nm) == [op |-> op, namespace |-> ns, name |-> nm]

(* ----------------------------- sub-fetches ----------------------------- *)

RECURSIVE fold_nodes(_, _)
fold_nodes(nodes, acc) ==
    IF nodes = <<>> THEN acc
    ELSE fold_nodes(Tail(nodes),
            dict_set(acc, Head(nodes),
                [node_ip |-> "N/A",
                 node_maximum_capacity |-> <<>>,
                 node_conditions |-> <<>>,
                 node_labels |-> <<>>]))

get_cluster_info(c) ==
    PyDict(<< <<"kubernetes_version", PyStr(KubernetesVersion)>>,
              <<"api_server_endpoint", PyStr(KubeConfigPath)>>,
              <<"number_of_nodes", PyInt(Len(c.nodes))>> >>)

get_cluster_info_calls(c) ==
    <<Call("load_kube_config", "", ""), Call("get_code", "", ""), Call("list_node", "", "")>>

get_node_info(c) == fold_nodes(c.nodes, PyDict(<<>>))

get_node_info_calls(c) == <<Call("load_kube_config", "", ""), Call("list_node", "", "")>>

RECURSIVE fold_namespaces(_, _)
fold_namespaces(nss, acc) ==
    IF nss = <<>> THEN acc
    ELSE fold_namespaces(Tail(nss),
            dict_set(acc, Head(nss), [resource_quotas |-> <<>>, limits |-> <<>>]))

get_namespace_info(c) == fold_namespaces(c.namespaces, PyDict(<<>>))

RECURSIVE namespace_calls(_)
namespace_calls(nss) ==
    IF nss = <<>> THEN <<>>
    ELSE <<Call("list_namespaced_resource_quota", Head(nss), ""),
           Call("list_namespaced_limit_range", Head(nss), "")>> \o namespace_calls(Tail(nss))

get_namespace_info_calls(c) ==
    <<Call("load_kube_config", "", ""), Call("list_namespace", "", "")>>
        \o namespace_calls(c.namespaces)

get_workload_info(c) ==
    PyDict(<< <<"deployments", <<"deploy1">> >>,
              <<"statefulsets", <<>> >>,
              <<"daemonsets", <<>> >>,
              <<"jobs", <<>> >>,
              <<"cronjobs", <<>> >> >>)

get_workload_info_calls(c) ==
    <<Call("load_kube_config", "", ""),
      Call("list_deployment_for_all_namespaces", "", ""),
      Call("list_stateful_set_for_all_namespaces", "", ""),
      Call("list_daemon_set_for_all_namespaces", "", ""),
      Call("list_job_for_all_namespaces", "", ""),
      Call("list_cron_job_for_all_namespaces", "", "")>>

RECURSIVE fold_services(_, _)
fold_services(svcs, acc) ==
    IF svcs = <<>> THEN acc
    ELSE fold_services(Tail(svcs),
            dict_append(acc, Head(svcs).namespace,
                [service_name |-> Head(svcs).name,
                 service_type |-> "ClusterIP",
                 cluster_ip |-> "10.0.0.1"]))

get_service_info(c) == fold_services(c.services, PyDict(<<>>))

get_service_info_calls(c) ==
    <<Call("load_kube_config", "", ""), Call("list_service_for_all_namespaces", "", "")>>

\* [{env_var.name: env_var.value} ...] over the pod's containers
pod_env_list(ns, nm) ==
    LET cs == PodContainers(ns, nm) IN [i \in 1..Len(cs) |-> cs[i].env[1]]

RECURSIVE fold_pods(_, _)
fold_pods(pods, acc) ==
    IF pods = <<>> THEN acc
    ELSE fold_pods(Tail(pods),
            dict_append(acc, Head(pods).namespace,
                [pod_name |-> Head(pods).name,
                 qos_class |-> "BestEffort",
                 restart_policy |-> "Always",
                 init_containers |-> 0,
                 env_vars |-> pod_env_list(Head(pods).namespace, Head(pods).name),
                 volume_mounts |-> <<>>]))

get_pod_info(c) == fold_pods(c.pods, PyDict(<<>>))

get_pod_info_calls(c) ==
    <<Call("load_kube_config", "", ""), Call("list_pod_for_all_namespaces", "", "")>>

\* the (namespace, pod record) pairs in the order the two nested loops visit them
RECURSIVE visit_order(_)
visit_order(items) ==
    IF items = <<>> THEN <<>>
    ELSE [i \in 1..Len(Head(items)[2]) |->
            [namespace |-> Head(items)[1], name |-> Head(items)[2][i].pod_name]]
         \o visit_order(Tail(items))

container_records(ns, nm) ==
    LET cs == PodContainers(ns, nm)
    IN [i \in 1..Len(cs) |-> [container_name |-> cs[i].name, image |-> cs[i].image]]

RECURSIVE fold_containers(_, _)
fold_containers(visits, acc) ==
    IF visits = <<>> THEN acc
    ELSE fold_containers(Tail(visits),
            dict_set(acc, Head(visits).name,
                container_records(Head(visits).namespace, Head(visits).name)))

\* variant: setdefault instead of assignment, the pod visited first keeps the key
RECURSIVE fold_containers_first(_, _)
fold_containers_first(visits, acc) ==
    IF visits = <<>> THEN acc
    ELSE fold_containers_first(Tail(visits),
            IF dict_has(acc, Head(visits).name) THEN acc
            ELSE dict_set(acc, Head(visits).name,
                    container_records(Head(visits).namespace, Head(visits).name)))

get_container_info_first_wins(pod_info) ==
    fold_containers_first(visit_order(pod_info.items), PyDict(<<>>))

get_container_info(pod_info) == fold_containers(visit_order(pod_info.items), PyDict(<<>>))

\* variant: a pod name already read is not read again
get_container_info_calls_by_name(pod_info) ==
    LET v == visit_order(pod_info.items)
        first == SelectSeq([i \in 1..Len(v) |-> [at |-> i, namespace |-> v[i].namespace, name |-> v[i].name]],
                           LAMBDA e : \A j \in 1..(e.at - 1) : v[j].name # e.name)
    IN [i \in 1..Len(first) |-> Call("read_namespaced_pod", first[i].namespace, first[i].name)]

get_container_info_calls(pod_info) ==
    LET v == visit_order(pod_info.items)
    IN [i \in 1..Len(v) |-> Call("read_namespaced_pod", v[i].namespace, v[i].name)]

RECURSIVE fold_env(_, _)
fold_env(pods, acc) ==
    IF pods = <<>> THEN acc
    ELSE fold_env(Tail(pods),
            dict_append(acc, Head(pods).namespace,
                [pod_name |-> Head(pods).name,
                 env_vars |-> pod_env_list(Head(pods).namespace, Head(pods).name)]))

get_pod_env_vars(c) == fold_env(c.pods, PyDict(<<>>))

get_pod_env_vars_calls(c) ==
    <<Call("load_kube_config", "", ""), Call("list_pod_for_all_namespaces", "", "")>>

(* ---------------------------- aggregate_info --------------------------- *)

NoLocals ==
    [cluster_info |-> PyNone, node_info |-> PyNone, namespace_info |-> PyNone,
     workload_info |-> PyNone, service_info |-> PyNone, pod_info |-> PyNone,
     container_info |-> PyNone, env_info |-> PyNone]

\* the "x = x or <placeholder>" lines
with_placeholders(l) ==
    [l EXCEPT
        !.cluster_info = py_or(@, PyDict(<< <<"kubernetes_version", PyStr("N/A")>>,
                                            <<"api_server_endpoint", PyStr("N/A")>>,
                                            <<"number_of_nodes", PyStr("N/A")>> >>)),
        !.node_info = py_or(@, PyStr("Node information is not available.")),
        !.namespace_info = py_or(@, PyStr("Namespace information is not available.")),
        !.workload_info = py_or(@, PyStr("Workload information is not available.")),
        !.service_info = py_or(@, PyStr("Service and networking information is not available."))]

\* variant: the literal also carries get_storage_driver() and get_scheduler_info()
combined_info_with_drivers(l) ==
    PyDict(<< <<"Cluster Information", l.cluster_info>>,
              <<"Node Information", l.node_info>>,
              <<"Namespace Information", l.namespace_info>>,
              <<"Workload Information", l.workload_info>>,
              <<"Service Information", l.service_info>>,
              <<"Pod Information", l.pod_info>>,
              <<"Container Information", l.container_info>>,
              <<"Environment Variables", l.env_info>>,
              <<"Storage Driver", PyStr("overlay2")>>,
              <<"Scheduler Information", PyStr("default-scheduler")>> >>)

\* the combined_info literal
combined_info_of(l) ==
    PyDict(<< <<"Cluster Information", l.cluster_info>>,
              <<"Node Information", l.node_info>>,
              <<"Namespace Information", l.namespace_info>>,
              <<"Workload Information", l.workload_info>>,
              <<"Service Information", l.service_info>>,
              <<"Pod Information", l.pod_info>>,
              <<"Container Information", l.container_info>>,
              <<"Environment Variables", l.env_info>> >>)

(* ---------------------------- generate_prompt -------------------------- *)

Line(sec, kind, key, val) == [sec |-> sec, kind |-> kind, key |-> key, val |-> val]

\* variant: the items are walked last to first
entry_lines_reversed(sec, d) ==
    [i \in 1..Len(d.items) |->
        Line(sec, "entry", d.items[Len(d.items) + 1 - i][1], d.items[Len(d.items) + 1 - i][2])]

\* "\n".join([f"- {k}: {v}" for k, v in d.items()]): one line per item, in items() order
entry_lines(sec, d) ==
    [i \in 1..Len(d.items) |-> Line(sec, "entry", d.items[i][1], d.items[i][2])]

\* f"- {workload_type}: {len(items)} items"
workload_lines(sec, d) ==
    [i \in 1..Len(d.items) |->
        Line(sec, "entry", d.items[i][1], int_str(Len(d.items[i][2])) \o " items")]

section(sec, body) == <<Line(sec, "header", "", sec \o ":")>> \o body

generate_prompt(ci, q) ==
    LET cluster_i   == dict_get(ci, "Cluster Information", PyDict(<<>>))
        node_i      == dict_get(ci, "Node Information", PyDict(<<>>))
        namespace_i == dict_get(ci, "Namespace Information", PyDict(<<>>))
        workload_i  == dict_get(ci, "Workload Information", PyDict(<<>>))
        service_i   == dict_get(ci, "Service Information", PyDict(<<>>))
        pod_i       == dict_get(ci, "Pod Information", PyDict(<<>>))
        container_i == dict_get(ci, "Container Information", PyDict(<<>>))
        hpa_i       == dict_get(ci, "HPA Information", PyStr("N/A"))
        storage_i   == dict_get(ci, "Storage Driver", PyStr("N/A"))
        scheduler_i == dict_get(ci, "Scheduler Information", PyStr("N/A"))
        used        == <<cluster_i, node_i, namespace_i, workload_i, service_i, pod_i,
                         container_i>>
    IN  IF \E i \in 1..Len(used) : used[i].t # "dict"
        THEN \* .items() / .get() on a str: AttributeError
             [ok |-> FALSE, exc |-> "AttributeError", text |-> <<>>]
        ELSE [ok |-> TRUE, exc |-> "", text |->
                <<Line("Intro", "text", "",
                       "You are a Kubernetes expert. Here is the detailed cluster information:")>>
                \o section("Cluster Information",
                     <<Line("Cluster Information", "value", "Kubernetes Version",
                            fmt(dict_get(cluster_i, "kubernetes_version", PyNone))),
                       Line("Cluster Information", "value", "API Server Endpoint",
                            fmt(dict_get(cluster_i, "api_server_endpoint", PyNone))),
                       Line("Cluster Information", "value", "Number of Nodes",
                            fmt(dict_get(cluster_i, "number_of_nodes", PyNone)))>>)
                \o section("Node Information", entry_lines("Node Information", node_i))
                \o section("Namespace Information", entry_lines("Namespace Information", namespace_i))
                \o section("Workload Information", workload_lines("Workload Information", workload_i))
                \o section("Service Information", entry_lines("Service Information", service_i))
                \o section("Pod Information", entry_lines("Pod Information", pod_i))
                \o section("Container Information", entry_lines("Container Information", container_i))
                \o section("HPA Information", <<Line("HPA Information", "value", "", fmt(hpa_i))>>)
                \o section("Storage Driver", <<Line("Storage Driver", "value", "", fmt(storage_i))>>)
                \o section("Scheduler Information",
                     <<Line("Scheduler Information", "value", "", fmt(scheduler_i))>>)
                \o <<Line("Query", "value", "Query", fmt(q)),
                     Line("Answer", "cue", "", "Answer:")>>]

(* ------------------------------ the handler ---------------------------- *)

NoResponse == [kind |-> "none", status |-> 0, body |-> <<>>]

\* request.json: a JSON null, an object without "query", an object with it
Bodies == {PyNone, PyDict(<<>>)} \cup {PyDict(<< <<"query", PyStr(q)>> >>) : q \in QueryTexts}

Init ==
    /\ cluster \in ConsistentClusters
    /\ pc = "idle"
    /\ request_data = PyNone
    /\ query = PyNone
    /\ locals = NoLocals
    /\ combined_info = PyNone
    /\ prompt = <<>>
    /\ sent = <<>>
    /\ answer = PyNone
    /\ response = NoResponse
    /\ calls = <<>>
    /\ failed = "none"

\* an exception no except clause of create_query matches leaves the handler
Raise(exc, at) ==
    /\ pc' = "done"
    /\ response' = [kind |-> "unhandled", status |-> 500, body |-> exc]
    /\ failed' = at

\* one sub-fetch of aggregate_info: it returns its value, or one of its API calls raises
Fetch(name, value, callseq, nextpc) ==
    /\ \/ /\ locals' = [locals EXCEPT ![name] = value]
          /\ calls' = calls \o callseq
          /\ pc' = nextpc
          /\ UNCHANGED <<response, failed>>
       \/ \E k \in 1..Len(callseq) :
            /\ calls' = calls \o SubSeq(callseq, 1, k)
            /\ Raise("FetchError", name)
            /\ UNCHANGED locals
    /\ UNCHANGED <<cluster, request_data, query, combined_info, prompt, sent, answer>>

\* request_data = request.json; query = request_data.get('query'); get_agent_response(query)
create_query ==
    /\ pc = "idle"
    /\ \E body \in Bodies :
        /\ request_data' = body
        /\ IF body.t # "dict"
           THEN /\ Raise("AttributeError", "create_query")
                /\ UNCHANGED <<query, calls>>
           ELSE /\ query' = dict_get(body, "query", PyNone)
                /\ calls' = Append(calls, Call("get_agent_response", "", ""))
                /\ pc' = "get_cluster_info"
                /\ UNCHANGED <<response, failed>>
    /\ UNCHANGED <<cluster, locals, combined_info, prompt, sent, answer>>

GetClusterInfo ==
    /\ pc = "get_cluster_info"
    /\ Fetch("cluster_info", get_cluster_info(cluster), get_cluster_info_calls(cluster),
             "get_node_info")

GetNodeInfo ==
    /\ pc = "get_node_info"
    /\ Fetch("node_info", get_node_info(cluster), get_node_info_calls(cluster),
             "get_namespace_info")

GetNamespaceInfo ==
    /\ pc = "get_namespace_info"
    /\ Fetch("namespace_info", get_namespace_info(cluster), get_namespace_info_calls(cluster),
             "get_workload_info")

GetWorkloadInfo ==
    /\ pc = "get_workload_info"
    /\ Fetch("workload_info", get_workload_info(cluster), get_workload_info_calls(cluster),
             "get_service_info")

GetServiceInfo ==
    /\ pc = "get_service_info"
    /\ Fetch("service_info", get_service_info(cluster), get_service_info_calls(cluster),
             "get_pod_info")

GetPodInfo ==
    /\ pc = "get_pod_info"
    /\ Fetch("pod_info", get_pod_info(cluster), get_pod_info_calls(cluster),
             "get_container_info")

GetContainerInfo ==
    /\ pc = "get_container_info"
    /\ Fetch("container_info", get_container_info(locals.pod_info),
             get_container_info_calls(locals.pod_info), "get_pod_env_vars")

GetPodEnvVars ==
    /\ pc = "get_pod_env_vars"
    /\ Fetch("env_info", get_pod_env_vars(cluster), get_pod_env_vars_calls(cluster),
             "combine")

\* the placeholder lines and the combined_info literal; return combined_info
AggregateInfo ==
    /\ pc = "combine"
    /\ locals' = with_placeholders(locals)
    /\ combined_info' = combined_info_of(locals')
    /\ pc' = "generate_prompt"
    /\ UNCHANGED <<cluster, request_data, query, prompt, sent, answer, response, calls, failed>>

GeneratePrompt ==
    /\ pc = "generate_prompt"
    /\ LET r == generate_prompt(combined_info, query)
       IN IF r.ok
          THEN /\ prompt' = r.text
               /\ pc' = "generate"
               /\ UNCHANGED <<response, failed>>
          ELSE /\ Raise(r.exc, "generate_prompt")
               /\ UNCHANGED prompt
    /\ UNCHANGED <<cluster, request_data, query, locals, combined_info, sent, answer, calls>>

\* get_agent_response hands the prompt to the text-completion service and strips its output
GetAgentResponse ==
    /\ pc = "generate"
    /\ sent' = prompt
    /\ calls' = Append(calls, Call("generate", "", ""))
    /\ \/ \E raw \in RawAnswers :
            /\ answer' = PyStr(strip(raw))
            /\ pc' = "respond"
            /\ UNCHANGED <<response, failed>>
       \/ /\ Raise("GenerationError", "generate")
          /\ UNCHANGED answer
    /\ UNCHANGED <<cluster, request_data, query, locals, combined_info, prompt>>

\* response = QueryResponse(query=query, answer=answer); except ValidationError: 400
Respond ==
    /\ pc = "respond"
    /\ response' = IF query.t = "str" /\ answer.t = "str"
                   THEN [kind |-> "ok", status |-> 200,
                         body |-> <<query.s, answer.s>>]
                   ELSE [kind |-> "error", status |-> 400, body |-> "ValidationError"]
    /\ pc' = "done"
    /\ UNCHANGED <<cluster, request_data, query, locals, combined_info, prompt, sent, answer,
                   calls, failed>>

\* the next request starts from nothing: no state is kept between requests
NextRequest ==
    /\ pc = "done"
    /\ pc' = "idle"
    /\ request_data' = PyNone
    /\ query' = PyNone
    /\ locals' = NoLocals
    /\ combined_info' = PyNone
    /\ prompt' = <<>>
    /\ sent' = <<>>
    /\ answer' = PyNone
    /\ response' = NoResponse
    /\ calls' = <<>>
    /\ failed' = "none"
    /\ UNCHANGED cluster

Next ==
    \/ create_query
    \/ GetClusterInfo
    \/ GetNodeInfo
    \/ GetNamespaceInfo
    \/ GetWorkloadInfo
    \/ GetServiceInfo
    \/ GetPodInfo
    \/ GetContainerInfo
    \/ GetPodEnvVars
    \/ AggregateInfo
    \/ GeneratePrompt
    \/ GetAgentResponse
    \/ Respond
    \/ NextRequest

Spec == Init /\ [][Next]_vars

(* ------------- generate_prompt on snapshots of any key order ----------- *)

\* the snapshot aggregate_info returns when every sub-fetch of cluster c succeeds
snapshot_locals(c) ==
    with_placeholders(
        [cluster_info |-> get_cluster_info(c), node_info |-> get_node_info(c),
         namespace_info |-> get_namespace_info(c), workload_info |-> get_workload_info(c),
         service_info |-> get_service_info(c), pod_info |-> get_pod_info(c),
         container_info |-> get_container_info(get_pod_info(c)),
         env_info |-> get_pod_env_vars(c)])

\* insertion orders of the snapshot's eight keys: the rotations of aggregate_info's
\* order and of its reverse
KeyOrders ==
    {[i \in 1..8 |-> ((i + r - 1) % 8) + 1] : r \in 0..7}
        \cup {[i \in 1..8 |-> 8 - ((i + r - 1) % 8)] : r \in 0..7}

reordered(d, order) == PyDict([i \in 1..Len(d.items) |-> d.items[order[i]]])

InitPrompt ==
    /\ cluster \in {c \in ConsistentClusters : c.hpas = <<>>}
    /\ pc = "generate_prompt"
    /\ request_data \in {b \in Bodies : dict_has(b, "query")}
    /\ query = dict_get(request_data, "query", PyNone)
    /\ locals = snapshot_locals(cluster)
    /\ \E order \in KeyOrders : combined_info = reordered(combined_info_of(locals), order)
    /\ prompt = <<>>
    /\ sent = <<>>
    /\ answer = PyNone
    /\ response = NoResponse
    /\ calls = <<>>
    /\ failed = "none"

NextPrompt == GeneratePrompt

SpecPrompt == InitPrompt /\ [][NextPrompt]_vars

(* ------------------------------- claims -------------------------------- *)

SubFetches ==
    {"cluster_info", "node_info", "namespace_info", "workload_info", "service_info",
     "pod_info", "container_info", "env_info"}

SectionKeys ==
    <<"Cluster Information", "Node Information", "Namespace Information",
      "Workload Information", "Service Information", "Pod Information",
      "Container Information", "Environment Variables">>

\* C1: a request in which one sub-fetch of aggregate_info failed still ends with a
\* snapshot built: all eight section keys present, and the node, pod and service
\* sections of the fetches that succeeded carrying the fetched data.
C1_FailedFetchStillYieldsSnapshot ==
    (pc = "done" /\ failed \in SubFetches) =>
        /\ combined_info.t = "dict"
        /\ dict_keys(combined_info) = SectionKeys
        /\ failed # "node_info" =>
              dict_at(combined_info, "Node Information").items = get_node_info(cluster).items
        /\ failed # "pod_info" =>
              dict_at(combined_info, "Pod Information").items = get_pod_info(cluster).items
        /\ failed # "service_info" =>
              dict_at(combined_info, "Service Information").items = get_service_info(cluster).items

MissingQuery == request_data.t = "dict" /\ ~dict_has(request_data, "query")

\* C2: for a request whose body has no query key, no cluster fetch and no
\* get_agent_response call is ever made, and when no collaborator fails the request
\* ends in a 400 error response.
C2_MissingQueryRejectedBeforeAnyCall ==
    MissingQuery =>
        /\ calls = <<>>
        /\ (pc = "done" /\ failed = "none") =>
              /\ response.kind = "error"
              /\ response.status = 400

EmptyCluster == cluster.pods = <<>> /\ cluster.services = <<>> /\ cluster.namespaces = <<>>

HeaderCount(text, sec) ==
    Cardinality({i \in 1..Len(text) : text[i].sec = sec /\ text[i].kind = "header"})

EntryCount(text, sec) ==
    Cardinality({i \in 1..Len(text) : text[i].sec = sec /\ text[i].kind = "entry"})

\* C3: every section value of a snapshot aggregate_info builds is a collection or a
\* mapping of "N/A" values, and the snapshot of a cluster with zero pods, services and
\* namespaces is rendered by generate_prompt without error, every section header
\* present, the Namespace, Service and Pod bodies empty.
C3_EmptyClusterSerializes ==
    combined_info.t = "dict" =>
        /\ \A i \in 1..Len(combined_info.items) : combined_info.items[i][2].t = "dict"
        /\ EmptyCluster =>
              LET r == generate_prompt(combined_info, query)
              IN /\ r.ok
                 /\ \A i \in 1..7 : HeaderCount(r.text, SectionKeys[i]) = 1
                 /\ EntryCount(r.text, "Namespace Information") = 0
                 /\ EntryCount(r.text, "Service Information") = 0
                 /\ EntryCount(r.text, "Pod Information") = 0

\* C4: every request in which something failed ends in a returned {"error": ...}
\* response with a 4xx or 5xx status; no exception leaves create_query.
C4_EveryFailureBecomesErrorResponse ==
    (pc = "done" /\ failed # "none") =>
        /\ response.kind = "error"
        /\ response.status \in 400..599

\* C5: the prompt ends with the literal query followed by the fixed instruction to
\* answer in one word, and the generator receives exactly the prompt.
C5_PromptEndsWithOneWordInstruction ==
    sent # <<>> =>
        /\ sent = prompt
        /\ prompt[Len(prompt) - 1].sec = "Query"
        /\ prompt[Len(prompt)].kind = "instruction"

\* the order of the template's sections
TemplateOrder ==
    <<"Intro", "Cluster Information", "Node Information", "Namespace Information",
      "Workload Information", "Service Information", "Pod Information",
      "Container Information", "HPA Information", "Storage Driver",
      "Scheduler Information", "Query", "Answer">>

Rank(sec) == CHOOSE i \in 1..Len(TemplateOrder) : TemplateOrder[i] = sec

MappingSections ==
    <<"Node Information", "Namespace Information", "Workload Information",
      "Service Information", "Pod Information", "Container Information">>

\* the keys of the entry lines of a section, in the order they appear in the text
EntryKeys(text, sec) ==
    LET es == SelectSeq(text, LAMBDA ln : ln.sec = sec /\ ln.kind = "entry")
    IN [i \in 1..Len(es) |-> es[i].key]

\* the same snapshot with its keys inserted in aggregate_info's order
in_aggregate_order(ci) ==
    PyDict([i \in 1..Len(SectionKeys) |-> <<SectionKeys[i], dict_at(ci, SectionKeys[i])>>])

\* C7: in every prompt the sections appear in the template's order (cluster header,
\* nodes, namespaces, workloads, services, pods, containers, ..., the query), whatever
\* the insertion order of the snapshot's keys; the entries of each section appear in
\* the insertion order of that section's mapping.
C7_FixedSectionOrder ==
    prompt # <<>> =>
        /\ \A i, j \in 1..Len(prompt) :
              i < j => Rank(prompt[i].sec) <= Rank(prompt[j].sec)
        /\ \A i \in 1..Len(TemplateOrder) :
              \E j \in 1..Len(prompt) : prompt[j].sec = TemplateOrder[i]
        /\ \A k \in 1..Len(MappingSections) :
              EntryKeys(prompt, MappingSections[k])
                  = dict_keys(dict_at(combined_info, MappingSections[k]))
        /\ prompt = generate_prompt(in_aggregate_order(combined_info), query).text

C7_Witness ==
    /\ prompt # <<>>
    /\ dict_keys(combined_info) # SectionKeys
    /\ Len(dict_at(combined_info, "Namespace Information").items) = 2
    /\ Len(dict_at(combined_info, "Container Information").items) = 2

ReadCount(ns, nm) ==
    Cardinality({i \in 1..Len(calls) : calls[i] = Call("read_namespaced_pod", ns, nm)})

\* the number of pod records named nm under namespace ns in the pod list
RecordCount(pod_info, ns, nm) ==
    LET pods == dict_get(pod_info, ns, <<>>)
    IN Cardinality({k \in 1..Len(pods) : pods[k].pod_name = nm})

\* C8: every read-one-pod call comes after the pod list fetch has returned; no pod is
\* read more often than the pod list holds it, and once get_container_info has returned
\* every (namespace, pod) of the pod list has been read exactly as often as the list
\* holds it (once), and no other pod has been read.
C8_PodListBeforeContainerReads ==
    /\ \A i \in 1..Len(calls) :
          calls[i].op = "read_namespaced_pod" =>
              /\ locals.pod_info.t = "dict"
              /\ \E j \in 1..(i - 1) : calls[j].op = "list_pod_for_all_namespaces"
    /\ \A ns \in NamespaceNames, nm \in PodNames :
          /\ ReadCount(ns, nm) > 0 => ReadCount(ns, nm) <= RecordCount(locals.pod_info, ns, nm)
          /\ locals.container_info.t = "dict" =>
                /\ ReadCount(ns, nm) = RecordCount(locals.pod_info, ns, nm)
                /\ ReadCount(ns, nm) <= 1

C8_Witness ==
    /\ locals.container_info.t = "dict"
    /\ ReadCount("ns1", "web") = 1
    /\ ReadCount("ns2", "web") = 1
    /\ ReadCount("ns2", "db") = 0

PodNamesListed(pod_info) ==
    LET v == visit_order(pod_info.items) IN {v[i].name : i \in 1..Len(v)}

\* the namespace of the pod named nm that the loops of get_container_info visit last
LastNamespace(pod_info, nm) ==
    LET v == visit_order(pod_info.items)
        last == CHOOSE i \in 1..Len(v) :
                    v[i].name = nm /\ \A j \in (i + 1)..Len(v) : v[j].name # nm
    IN v[last].namespace

\* C9: the container map has exactly one key per distinct pod name of the pod list;
\* under a name shared by pods of several namespaces it holds the containers of the
\* pod visited last, and the containers of the pods visited earlier are nowhere in it.
C9_ContainersKeyedByPodName ==
    locals.container_info.t = "dict" =>
        LET ct == locals.container_info
            v == visit_order(locals.pod_info.items)
        IN /\ Range(dict_keys(ct)) = PodNamesListed(locals.pod_info)
           /\ Len(ct.items) = Cardinality(PodNamesListed(locals.pod_info))
           /\ \A nm \in PodNamesListed(locals.pod_info) :
                 dict_at(ct, nm) = container_records(LastNamespace(locals.pod_info, nm), nm)
           /\ \A i \in 1..Len(v) :
                 v[i].namespace # LastNamespace(locals.pod_info, v[i].name) =>
                     \A k \in 1..Len(ct.items) :
                         ct.items[k][2] # container_records(v[i].namespace, v[i].name)
           /\ combined_info.t = "dict" =>
                 dict_at(combined_info, "Container Information") = ct

C9_Witness ==
    /\ combined_info.t = "dict"
    /\ cluster.pods = <<[namespace |-> "ns1", name |-> "web"],
                        [namespace |-> "ns2", name |-> "web"],
                        [namespace |-> "ns1", name |-> "db"]>>
    /\ dict_keys(locals.container_info) = <<"web", "db">>
    /\ dict_at(locals.container_info, "web") = container_records("ns2", "web")

SectionValues(text, sec) ==
    LET vs == SelectSeq(text, LAMBDA ln : ln.sec = sec /\ ln.kind = "value")
    IN [i \in 1..Len(vs) |-> vs[i].val]

\* C10: every prompt rendered from a snapshot of aggregate_info shows "N/A" under the
\* HPA, Storage Driver and Scheduler headers, whatever the cluster holds; the snapshot
\* has no such keys, no autoscaler list call is made, and the snapshot's
\* "Environment Variables" section is not part of the prompt.
C10_UnsetSectionsRenderNA ==
    /\ combined_info.t = "dict" =>
          /\ ~dict_has(combined_info, "HPA Information")
          /\ ~dict_has(combined_info, "Storage Driver")
          /\ ~dict_has(combined_info, "Scheduler Information")
          /\ dict_has(combined_info, "Environment Variables")
    /\ \A i \in 1..Len(calls) :
          calls[i].op # "list_horizontal_pod_autoscaler_for_all_namespaces"
    /\ prompt # <<>> =>
          /\ SectionValues(prompt, "HPA Information") = <<"N/A">>
          /\ SectionValues(prompt, "Storage Driver") = <<"N/A">>
          /\ SectionValues(prompt, "Scheduler Information") = <<"N/A">>
          /\ \A i \in 1..Len(prompt) : prompt[i].sec # "Environment Variables"

C10_Witness ==
    /\ prompt # <<>>
    /\ cluster.hpas # <<>>
    /\ dict_at(combined_info, "Environment Variables").items # <<>>

====
